---- MODULE Spec2Model ----
(***************************************************************************)
(* A model of the g-win G-code analyzer: the Microns fixed-point value,   *)
(* the Command / GCodeModel containers and the Cursor of analyzer.rs with *)
(* its traversal and classification operations.                           *)
(*                                                                         *)
(* Indices are 0-based as in the source; the line at index i of a model    *)
(* m is m.lines[i + 1].  An Option<T> is a sequence of length at most one: *)
(* <<>> is None and <<v>> is Some(v).  A position [Microns; 5] is a        *)
(* 5-tuple <<x, y, z, e, f>> of i32 values.                                *)
(***************************************************************************)
EXTENDS Integers, Sequences, FiniteSets, TLC

VARIABLES
    model,            \* the GCodeModel the cursor was built on
    overflow_checks,  \* build profile: TRUE = integer overflow panics (debug)
    cursor,           \* the Cursor under test
    pc,               \* "ready", "shapes" (inside the loop of shapes()),
                      \* "child_at" (inside the loop of child_at), "panicked"
    shapes_acc,       \* the Vec `shapes` being filled by a running shapes()
    last,             \* the last completed call: op, arg, ret, cursor before it
    ext_curr,         \* argument curr of a direct is_extrusion call
    ext_prev,         \* argument prev of a direct is_extrusion call
    other,            \* a second Cursor over the same model
    text              \* the text handed to the parser, a sequence of characters

vars == <<model, overflow_checks, cursor, pc, shapes_acc, last, ext_curr, ext_prev,
          other, text>>

(***************************************************************************)
(* Bounds of the model.                                                    *)
(***************************************************************************)
MaxLen == 3
MaxShapes == 4
MaxText == 4

(***************************************************************************)
(* Microns (microns.rs).                                                   *)
(***************************************************************************)
I32_MAX == 2147483647
MIN == (0 - I32_MAX) - 1
ZERO == 0

\* impl Sub for Microns: i32::saturating_sub, computed inside the i32 range
Sub(a, b) ==
    IF b > 0
    THEN IF a < MIN + b THEN MIN ELSE a - b
    ELSE IF a > I32_MAX + b THEN I32_MAX ELSE a - b

\* impl Add for Microns: i32::saturating_add, computed inside the i32 range
Add(a, b) ==
    IF b > 0
    THEN IF a > I32_MAX - b THEN I32_MAX ELSE a + b
    ELSE IF a < MIN - b THEN MIN ELSE a + b

\* i32::abs overflows on i32::MIN: a panic with overflow checks, MIN without
AbsOverflows(v) == v = MIN

\* Microns::abs, the value returned when it returns
abs(v) == IF v = MIN THEN MIN ELSE IF v < 0 THEN 0 - v ELSE v

(***************************************************************************)
(* Option helpers.                                                         *)
(***************************************************************************)
None == <<>>
Some(v) == <<v>>
unwrap_or(o, d) == IF o = None THEN d ELSE o[1]

(***************************************************************************)
(* Command.                                                                *)
(***************************************************************************)
G1(x, y, z, e, f) == [tag |-> "G1", x |-> x, y |-> y, z |-> z, e |-> e, f |-> f]
G90 == [tag |-> "G90"]
G91 == [tag |-> "G91"]
M82 == [tag |-> "M82"]
M83 == [tag |-> "M83"]
Home(s) == [tag |-> "Home", s |-> s]
Raw(s) == [tag |-> "Raw", s |-> s]

\* The commands the checked models are built from.
CmdSet ==
    { G1(Some(1000), None, None, Some(1000), None),       \* G1 X1 E1
      G1(None, Some(5000), None, None, None),             \* G1 Y5
      G1(None, None, Some(200), None, None),              \* G1 Z0.2
      G1(Some(2000), None, Some(400), Some(2000), None),  \* G1 X2 Z0.4 E2
      G1(None, None, None, Some(-1000), None),            \* G1 E-1
      G91,
      Home("G28"),
      Raw("M666") }

RECURSIVE SeqsOfLen(_, _)
SeqsOfLen(S, n) ==
    IF n = 0 THEN { <<>> }
    ELSE { Append(s, c) : s \in SeqsOfLen(S, n - 1), c \in S }

RECURSIVE LastFlag(_, _, _, _)
\* gcode_parser: the flag is false by default and follows the last mode switch
LastFlag(ls, on, off, i) ==
    IF i = 0 THEN FALSE
    ELSE IF ls[i].tag = on THEN TRUE
    ELSE IF ls[i].tag = off THEN FALSE
    ELSE LastFlag(ls, on, off, i - 1)

GCodeModel(ls) ==
    [lines |-> ls,
     rel_xyz |-> LastFlag(ls, "G91", "G90", Len(ls)),
     rel_e |-> LastFlag(ls, "M83", "M82", Len(ls))]

Models == { GCodeModel(ls) : ls \in UNION { SeqsOfLen(CmdSet, n) : n \in 1..MaxLen } }

len(m) == Len(m.lines)

(***************************************************************************)
(* Extrusion classification (analyzer.rs).                                 *)
(***************************************************************************)
\* is_extrusion without the test of the current E
is_extrusion_any_e(curr, prev_pos) ==
    \/ abs(Sub(curr[1], prev_pos[1])) > ZERO
    \/ abs(Sub(curr[2], prev_pos[2])) > ZERO
    \/ abs(Sub(curr[3], prev_pos[3])) > ZERO

\* is_extrusion, the value returned when no abs overflows or overflow wraps
is_extrusion(curr, prev_pos) ==
    IF curr[4] > ZERO
    THEN \/ abs(Sub(curr[1], prev_pos[1])) > ZERO
         \/ abs(Sub(curr[2], prev_pos[2])) > ZERO
         \/ abs(Sub(curr[3], prev_pos[3])) > ZERO
    ELSE FALSE

\* is_extrusion evaluates abs on MIN (the || chain stops at the first true)
is_extrusion_overflows(curr, prev_pos) ==
    /\ curr[4] > ZERO
    /\ \/ AbsOverflows(Sub(curr[1], prev_pos[1]))
       \/ /\ ~(abs(Sub(curr[1], prev_pos[1])) > ZERO)
          /\ \/ AbsOverflows(Sub(curr[2], prev_pos[2]))
             \/ /\ ~(abs(Sub(curr[2], prev_pos[2])) > ZERO)
                /\ AbsOverflows(Sub(curr[3], prev_pos[3]))

(***************************************************************************)
(* Cursor (analyzer.rs).                                                   *)
(***************************************************************************)
Unset == <<MIN, MIN, MIN, MIN, MIN>>

\* Cursor::update treating every line that is not a G1 as a home
update_homes_on_other(c) ==
    LET line == c.parent.lines[c.idx + 1]
        st == c.state
    IN [c EXCEPT
          !.curr_command = line,
          !.state =
              IF line.tag = "G1"
              THEN << unwrap_or(line.x, st[1]),
                      unwrap_or(line.y, st[2]),
                      unwrap_or(line.z, st[3]),
                      unwrap_or(line.e, st[4]),
                      unwrap_or(line.f, st[5]) >>
              ELSE <<ZERO, ZERO, ZERO, ZERO, ZERO>>]

\* Cursor::update
update(c) ==
    LET line == c.parent.lines[c.idx + 1]
        st == c.state
    IN [c EXCEPT
          !.curr_command = line,
          !.state =
              IF line.tag = "G1"
              THEN << unwrap_or(line.x, st[1]),
                      unwrap_or(line.y, st[2]),
                      unwrap_or(line.z, st[3]),
                      unwrap_or(line.e, st[4]),
                      unwrap_or(line.f, st[5]) >>
              ELSE IF line.tag = "Home"
              THEN <<ZERO, ZERO, ZERO, ZERO, ZERO>>
              ELSE st]

\* impl From<&GCodeModel> for Cursor
CursorFrom(parent) ==
    update([parent |-> parent,
            idx |-> 0,
            state |-> Unset,
            prev |-> Unset,
            curr_command |-> parent.lines[1]])

\* Cursor::reset
reset(c) == update([c EXCEPT !.idx = 0])

\* Cursor::next taking the snapshot of the position before the end test
next_snapshot_first(c) ==
    IF c.idx = len(c.parent) - 1
    THEN [cur |-> [c EXCEPT !.prev = c.state], ok |-> FALSE]
    ELSE [cur |-> update([c EXCEPT !.idx = c.idx + 1, !.prev = c.state]),
          ok |-> TRUE]

\* Cursor::next: the cursor after the call and whether it returned Ok
next(c) ==
    IF c.idx = len(c.parent) - 1
    THEN [cur |-> c, ok |-> FALSE]
    ELSE [cur |-> update([c EXCEPT !.idx = c.idx + 1, !.prev = c.state]),
          ok |-> TRUE]

\* Cursor::prev stepping back without the update() of the new line
prev_without_update(c) ==
    IF c.idx = 0
    THEN [cur |-> c, ok |-> FALSE]
    ELSE [cur |-> [c EXCEPT !.idx = c.idx - 1, !.prev = c.state],
          ok |-> TRUE]

\* Cursor::prev: the cursor after the call and whether it returned Ok
prev(c) ==
    IF c.idx = 0
    THEN [cur |-> c, ok |-> FALSE]
    ELSE [cur |-> update([c EXCEPT !.idx = c.idx - 1, !.prev = c.state]),
          ok |-> TRUE]

RECURSIVE child_walk(_, _)
\* the loop of child_at
child_walk(child, idx) ==
    IF child.idx < idx THEN child_walk(next(child).cur, idx) ELSE child

\* Cursor::child_at walking on from the caller's cursor instead of a fresh one
child_at_from_self(c, idx) == child_walk(c, idx)

\* Cursor::child_at, for idx < len (the loop does not end for idx >= len)
child_at(c, idx) == child_walk(CursorFrom(c.parent), idx)

RECURSIVE child_loop(_, _)
\* the loop of child_at for every idx: next() fails on the last line and
\* leaves the child where it is, its result is dropped, and the loop does not
\* end (returns is false) when the child is still before idx
child_loop(child, idx) ==
    IF child.idx < idx
    THEN IF next(child).ok THEN child_loop(next(child).cur, idx)
         ELSE [child |-> child, returns |-> FALSE]
    ELSE [child |-> child, returns |-> TRUE]

RECURSIVE shape_walk(_, _, _, _, _)
\* the while loop of next_shape; overflow: an is_extrusion call overflowed
shape_walk(c, init_state, prev_pos, end, overflow) ==
    IF init_state # is_extrusion(c.state, prev_pos) /\ next(c).ok
    THEN LET n == next(c).cur
         IN shape_walk(n, init_state, n.state, n.idx,
                       overflow \/ is_extrusion_overflows(c.state, prev_pos))
    ELSE [cur |-> c, end |-> end,
          overflow |-> overflow \/ is_extrusion_overflows(c.state, prev_pos)]

\* Cursor::next_shape: the cursor after the call and the range <<start, end>>
next_shape(c) ==
    IF c.idx = len(c.parent) - 1
    THEN [cur |-> c, range |-> <<c.idx, c.idx>>, overflow |-> FALSE]
    ELSE LET w == shape_walk(c, is_extrusion(c.state, c.prev), c.state, c.idx,
                             is_extrusion_overflows(c.state, c.prev))
         IN [cur |-> IF w.cur.idx # len(c.parent) - 1 THEN prev(w.cur).cur ELSE w.cur,
             range |-> <<c.idx, w.end>>,
             overflow |-> w.overflow]

\* Cursor::nonplanar_extrusion
nonplanar_extrusion(c, prev_pos) ==
    LET dz == Sub(c.state[3], prev_pos[3])
        cmd == c.curr_command
    IN IF cmd.tag = "G1"
       THEN IF cmd.e # None
            THEN cmd.e[1] > ZERO /\ abs(dz) > ZERO
            ELSE FALSE
       ELSE FALSE

\* nonplanar_extrusion evaluates abs on MIN
nonplanar_overflows(c, prev_pos) ==
    LET cmd == c.curr_command
    IN IF cmd.tag = "G1"
       THEN IF cmd.e # None
            THEN cmd.e[1] > ZERO /\ AbsOverflows(Sub(c.state[3], prev_pos[3]))
            ELSE FALSE
       ELSE FALSE

RECURSIVE planar_walk(_, _, _)
\* the while loop of is_planar
planar_walk(c, init, overflow) ==
    LET n == next(c)
    IN IF ~n.ok
       THEN [cur |-> c, ret |-> TRUE, overflow |-> overflow]
       ELSE IF nonplanar_extrusion(n.cur, init)
            THEN [cur |-> n.cur, ret |-> FALSE,
                  overflow |-> overflow \/ nonplanar_overflows(n.cur, init)]
            ELSE planar_walk(n.cur, n.cur.state,
                             overflow \/ nonplanar_overflows(n.cur, init))

\* Cursor::is_planar
is_planar(c) == planar_walk(c, c.state, FALSE)

RECURSIVE dedup(_)
\* Vec::dedup: drops every element equal to the one before it
dedup(h) ==
    IF Len(h) < 2 THEN h
    ELSE LET d == dedup(SubSeq(h, 1, Len(h) - 1))
         IN IF h[Len(h)] = h[Len(h) - 1] THEN d ELSE Append(d, h[Len(h)])

RECURSIVE insert_sorted(_, _)
insert_sorted(h, v) ==
    IF h = <<>> THEN <<v>>
    ELSE IF v < h[1] THEN <<v>> \o h
    ELSE <<h[1]>> \o insert_sorted(Tail(h), v)

RECURSIVE sort(_)
\* Vec::sort: ascending
sort(h) == IF h = <<>> THEN <<>> ELSE insert_sorted(sort(Tail(h)), h[1])

RECURSIVE height_walk(_, _, _, _)
\* the while loop of layer_height that collects the Z of the extrusion moves
height_walk(c, init, heights, overflow) ==
    LET n == next(c)
    IN IF ~n.ok
       THEN [cur |-> c, heights |-> heights, overflow |-> overflow]
       ELSE height_walk(n.cur, n.cur.state,
                        IF is_extrusion(n.cur.state, init)
                        THEN Append(heights, n.cur.state[3]) ELSE heights,
                        overflow \/ is_extrusion_overflows(n.cur.state, init))

\* layer_height, from the sorted heights on: true iff every later difference
\* equals second_layer_height
later_layers_equal(h, second_layer_height) ==
    \A i \in 4..Len(h) : Sub(h[i], h[i - 1]) = second_layer_height

\* layer_height, the part after heights.dedup(); heights.sort()
layer_pair(h) ==
    IF Len(h) = 0 THEN <<ZERO, ZERO>>
    ELSE IF Len(h) = 1 THEN <<h[1], ZERO>>
    ELSE IF Len(h) = 2 THEN <<Sub(h[2], h[1]), ZERO>>
    ELSE IF Len(h) = 3 THEN <<Sub(h[2], h[1]), Sub(h[3], h[2])>>
    ELSE IF later_layers_equal(h, Sub(h[3], h[2]))
         THEN <<Sub(h[2], h[1]), Sub(h[3], h[2])>>
         ELSE <<Sub(h[2], h[1]), ZERO>>

\* Cursor::layer_height
layer_height(c) ==
    LET p == is_planar(c)
    IN IF ~p.ret
       THEN [cur |-> p.cur, ret |-> <<ZERO, ZERO>>, overflow |-> p.overflow]
       ELSE LET w == height_walk(p.cur, c.state, <<>>, p.overflow)
            IN [cur |-> w.cur, ret |-> layer_pair(sort(dedup(w.heights))),
                overflow |-> w.overflow]

RECURSIVE first_extrusion_walk(_, _, _)
\* the while loop of at_first_extrusion on the copy temp_cursor
first_extrusion_walk(temp_cursor, curr, overflow) ==
    LET p == prev(temp_cursor)
    IN IF ~p.ok
       THEN [ret |-> TRUE, overflow |-> overflow]
       ELSE IF is_extrusion(curr, p.cur.state)
            THEN [ret |-> FALSE,
                  overflow |-> overflow \/ is_extrusion_overflows(curr, p.cur.state)]
            ELSE first_extrusion_walk(p.cur, curr,
                     overflow \/ is_extrusion_overflows(curr, p.cur.state))

\* Cursor::at_first_extrusion
at_first_extrusion(c) == first_extrusion_walk(c, c.state, FALSE)

\* Microns::from(2.0), the margin of is_purge_line
MARGIN == 2000

(***************************************************************************)
(* f32 (IEEE 754 binary32, round to nearest, ties to even) on the values    *)
(* calc_slope(..).abs() and the slope test of is_purge_line can take: none  *)
(* is negative after abs. [kind |-> "fin", m, e] is m * 2^e with m = 0 or   *)
(* 2^23 <= m < 2^24; "inf" and "nan" have m = 0 and e = 0. No slope and no  *)
(* difference of slopes of i32 microns is subnormal or overflows.           *)
(***************************************************************************)
RECURSIVE Pow2(_)
Pow2(n) == IF n = 0 THEN 1 ELSE 2 * Pow2(n - 1)

RECURSIVE BitLen(_)
\* the number of bits of n > 0
BitLen(n) == IF n = 0 THEN 0 ELSE 1 + BitLen(n \div 2)

F32(m, e) == [kind |-> "fin", m |-> m, e |-> e]

F32_ZERO == F32(0, 0)

F32_INFINITY == [kind |-> "inf", m |-> 0, e |-> 0]

F32_NAN == [kind |-> "nan", m |-> 0, e |-> 0]

\* f32::EPSILON = 2^-23
EPSILON == F32(Pow2(23), 0 - 46)

\* n / 2^k rounded to the nearest integer, ties to even
round_shift(n, k) ==
    LET q == n \div Pow2(k)
        r == n % Pow2(k)
        half == Pow2(k - 1)
    IN IF r > half \/ (r = half /\ q % 2 = 1) THEN q + 1 ELSE q

\* n * 2^e, n > 0 below 2^31, rounded to the 24 bits of an f32
f32_round(n, e) ==
    LET bits == BitLen(n)
    IN IF bits <= 24
       THEN F32(n * Pow2(24 - bits), e - (24 - bits))
       ELSE LET q == round_shift(n, bits - 24)
            IN IF q = Pow2(24)
               THEN F32(Pow2(23), e + (bits - 24) + 1)
               ELSE F32(q, e + (bits - 24))

\* |v as f32| for an i32 v; |MIN| = 2^31 is an f32
i32_as_f32_abs(v) ==
    IF v = 0 THEN F32_ZERO
    ELSE IF v = MIN THEN F32(Pow2(23), 8)
    ELSE f32_round(IF v < 0 THEN 0 - v ELSE v, 0)

RECURSIVE div_bits(_, _, _, _)
\* n more quotient bits of rem / d by shift and subtract
div_bits(rem, d, q, n) ==
    IF n = 0 THEN [q |-> q, rem |-> rem]
    ELSE IF 2 * rem >= d
         THEN div_bits(2 * rem - d, d, 2 * q + 1, n - 1)
         ELSE div_bits(2 * rem, d, 2 * q, n - 1)

\* the f32 quotient a / b of values that are not negative
f32_div(a, b) ==
    IF a.kind = "nan" \/ b.kind = "nan" THEN F32_NAN
    ELSE IF a.kind = "inf"
         THEN IF b.kind = "inf" THEN F32_NAN ELSE F32_INFINITY
    ELSE IF b.kind = "inf" THEN F32_ZERO
    ELSE IF b.m = 0
         THEN IF a.m = 0 THEN F32_NAN ELSE F32_INFINITY
    ELSE IF a.m = 0 THEN F32_ZERO
    ELSE LET ge == a.m >= b.m
             r == IF ge THEN div_bits(a.m - b.m, b.m, 1, 23)
                  ELSE div_bits(a.m, b.m, 0, 24)
             e == a.e - b.e - (IF ge THEN 23 ELSE 24)
             up == \/ 2 * r.rem > b.m
                   \/ 2 * r.rem = b.m /\ r.q % 2 = 1
             q == IF up THEN r.q + 1 ELSE r.q
         IN IF q = Pow2(24) THEN F32(Pow2(23), e + 1) ELSE F32(q, e)

\* a > b on finite values that are not negative
f32_gt(a, b) ==
    IF a.m = 0 THEN FALSE
    ELSE IF b.m = 0 THEN TRUE
    ELSE a.e > b.e \/ (a.e = b.e /\ a.m > b.m)

\* n shifted right by d bits, a lost one bit kept in the lowest (sticky) bit
shift_sticky(n, d) ==
    IF d = 0 THEN n
    ELSE IF d >= 30 THEN 1
    ELSE LET q == n \div Pow2(d)
         IN IF n % Pow2(d) # 0 /\ q % 2 = 0 THEN q + 1 ELSE q

\* (a - b).abs() in f32 on finite values that are not negative: the
\* subtraction with three guard bits, then the rounding
f32_sub_abs(a, b) ==
    IF a = b THEN F32_ZERO
    ELSE LET hi == IF f32_gt(a, b) THEN a ELSE b
             lo == IF f32_gt(a, b) THEN b ELSE a
         IN IF lo.m = 0 THEN hi
            ELSE f32_round(8 * hi.m - shift_sticky(8 * lo.m, hi.e - lo.e),
                           hi.e - 3)

\* f32::from(Microns).abs(): m.0 as f32 / 1000.0
f32_from_abs(v) == f32_div(i32_as_f32_abs(v), f32_round(1000, 0))

\* calc_slope(a, b).abs(): the f32 quotient of f32::from(dy) and
\* f32::from(dx), infinite for a nonzero dy over dx = 0 and NaN for 0.0 / 0.0
calc_slope_abs(a, b) ==
    LET dx == Sub(b[1], a[1])
        dy == Sub(b[2], a[2])
    IN f32_div(f32_from_abs(dy), f32_from_abs(dx))

\* (slope - slope_i).abs() > f32::EPSILON; a NaN difference compares false
slopes_differ(s1, s2) ==
    IF s1.kind = "nan" \/ s2.kind = "nan" THEN FALSE
    ELSE IF s1.kind = "inf" /\ s2.kind = "inf" THEN FALSE
    ELSE IF s1.kind = "inf" \/ s2.kind = "inf" THEN TRUE
    ELSE f32_gt(f32_sub_abs(s1, s2), EPSILON)

RECURSIVE slopes_equal_from(_, _, _)
\* the for loop of is_purge_line over i in i..len: true iff no slope differs
slopes_equal_from(positions, i, slope) ==
    IF i > Len(positions) THEN TRUE
    ELSE LET slope_i == calc_slope_abs(positions[i - 1], positions[i])
         IN IF slopes_differ(slope, slope_i) THEN FALSE
            ELSE slopes_equal_from(positions, i + 1, slope_i)

RECURSIVE purge_walk(_, _, _, _)
\* the while loop of is_purge_line: inside is false when it returned false
purge_walk(cur, init, shape_positions, overflow) ==
    LET n == next(cur)
    IN IF ~n.ok
       THEN [inside |-> TRUE, shape_positions |-> shape_positions,
             overflow |-> overflow]
       ELSE LET ext == is_extrusion(init, n.cur.state)
                ov == overflow \/ is_extrusion_overflows(init, n.cur.state)
            IN IF ext /\ n.cur.state[1] > MARGIN /\ n.cur.state[2] > MARGIN
               THEN [inside |-> FALSE, shape_positions |-> shape_positions,
                     overflow |-> ov]
               ELSE purge_walk(n.cur, n.cur.state,
                               IF ext THEN Append(shape_positions, n.cur.state)
                               ELSE shape_positions,
                               ov)

\* Cursor::is_purge_line on the range lines = <<start, end>>
is_purge_line(c, lines) ==
    LET cur == child_at(c, lines[1])
        first == at_first_extrusion(cur)
    IN IF ~first.ret
       THEN [ret |-> FALSE, overflow |-> first.overflow]
       ELSE LET w == purge_walk(cur, cur.state, <<>>, first.overflow)
            IN IF ~w.inside
               THEN [ret |-> FALSE, overflow |-> w.overflow]
               ELSE IF Len(w.shape_positions) > 2
                    THEN [ret |-> slopes_equal_from(w.shape_positions, 3,
                                     calc_slope_abs(w.shape_positions[1],
                                                    w.shape_positions[2])),
                          overflow |-> w.overflow]
                    ELSE [ret |-> TRUE, overflow |-> w.overflow]

\* usize::saturating_sub(1)
saturating_sub_1(n) == IF n = 0 THEN 0 ELSE n - 1

\* Cursor::pre_print after its call of shapes() returned shapes and left the
\* cursor c
pre_print_after_shapes(c, shapes) ==
    IF shapes = <<>>
    THEN [ok |-> FALSE, err |-> "No preprint found", overflow |-> FALSE]
    ELSE LET purge == is_purge_line(c, shapes[1])
         IN IF ~purge.ret
            THEN [ok |-> TRUE, range |-> <<0, saturating_sub_1(shapes[1][1])>>,
                  overflow |-> purge.overflow]
            ELSE IF Len(shapes) >= 2
                 THEN [ok |-> TRUE, range |-> <<0, saturating_sub_1(shapes[2][1])>>,
                       overflow |-> purge.overflow]
                 ELSE [ok |-> FALSE, err |-> "No preprint found",
                       overflow |-> purge.overflow]

\* post_print starting its range on the last line of the last shape
post_print_from_shape_end(c, shapes) ==
    IF shapes # <<>>
    THEN [ok |-> TRUE,
          range |-> <<shapes[Len(shapes)][2], len(c.parent) - 1>>]
    ELSE [ok |-> FALSE, err |-> "No postprint found"]

\* Cursor::post_print after its call of shapes() returned shapes
post_print_after_shapes(c, shapes) ==
    IF shapes # <<>>
    THEN [ok |-> TRUE,
          range |-> <<shapes[Len(shapes)][2] + 1, len(c.parent) - 1>>]
    ELSE [ok |-> FALSE, err |-> "No postprint found"]

\* the element of a one-element set
Only(S) == CHOOSE x \in S : TRUE

RECURSIVE shapes_loop(_, _, _, _)
\* the while loop of shapes() run for at most fuel iterations: returns is
\* false when the loop is still running after them
shapes_loop(c, acc, overflow, fuel) ==
    IF ~(c.idx < len(c.parent) - 1)
    THEN [cur |-> c, shapes |-> acc, returns |-> TRUE, overflow |-> overflow]
    ELSE IF fuel = 0
         THEN [cur |-> c, shapes |-> acc, returns |-> FALSE, overflow |-> overflow]
         ELSE Only({ shapes_loop(r.cur, Append(acc, r.range),
                                 overflow \/ r.overflow, fuel - 1) :
                     r \in {next_shape(c)} })

\* Cursor::shapes as one call
shapes_run(c) == shapes_loop(reset(c), <<>>, FALSE, MaxShapes)

\* the Cursor methods two cursors are driven with
CursorOps ==
    {"next", "prev", "reset", "next_shape", "shapes", "is_planar",
     "layer_height", "pre_print", "post_print", "child_at"}

\* the largest index child_at is called with: past the end of every model
MaxIdx == MaxLen + 1

\* the arguments op is called with: child_at takes an index, the other
\* methods take none
OpArgs(op) == IF op = "child_at" THEN { <<idx>> : idx \in 0..MaxIdx } ELSE { <<>> }

\* the cursor the method op leaves behind when called on the cursor c with
\* the arguments args, whether the call returns, and whether an abs
\* overflowed in it
call(op, c, args) ==
    CASE op = "next" ->
            [cur |-> next(c).cur, returns |-> TRUE, overflow |-> FALSE]
      [] op = "prev" ->
            [cur |-> prev(c).cur, returns |-> TRUE, overflow |-> FALSE]
      [] op = "reset" ->
            [cur |-> reset(c), returns |-> TRUE, overflow |-> FALSE]
      [] op = "next_shape" ->
            LET r == next_shape(c)
            IN [cur |-> r.cur, returns |-> TRUE, overflow |-> r.overflow]
      [] op = "is_planar" ->
            LET r == is_planar(c)
            IN [cur |-> r.cur, returns |-> TRUE, overflow |-> r.overflow]
      [] op = "layer_height" ->
            LET r == layer_height(c)
            IN [cur |-> r.cur, returns |-> TRUE, overflow |-> r.overflow]
      [] op = "pre_print" ->
            Only({ [cur |-> r.cur, returns |-> r.returns,
                    overflow |-> \/ r.overflow
                                 \/ /\ r.returns
                                    /\ pre_print_after_shapes(r.cur, r.shapes).overflow] :
                   r \in {shapes_run(c)} })
      [] op \in {"shapes", "post_print"} ->
            Only({ [cur |-> r.cur, returns |-> r.returns, overflow |-> r.overflow] :
                   r \in {shapes_run(c)} })
      [] op = "child_at" ->
            [cur |-> c,
             returns |-> child_loop(CursorFrom(c.parent), args[1]).returns,
             overflow |-> FALSE]

\* one traversal state written by every cursor
assign_shared(cursors, which, c) == [i \in DOMAIN cursors |-> c]

\* &mut self: of the cursors only the receiver is assigned
assign(cursors, which, c) == [cursors EXCEPT ![which] = c]

(***************************************************************************)
(* The state machine: one cursor over one model, one action per call.      *)
(***************************************************************************)
NoCall(c) == [op |-> "new", arg |-> <<>>, ret |-> <<>>, before |-> c]

Init ==
    /\ model \in Models
    /\ overflow_checks \in BOOLEAN
    /\ cursor = CursorFrom(model)
    /\ pc = "ready"
    /\ shapes_acc = <<>>
    /\ last = NoCall(cursor)
    /\ ext_curr = Unset
    /\ ext_prev = Unset
    /\ other = CursorFrom(model)
    /\ text = <<>>

\* a call that returns ret and leaves the cursor c; it panics instead when an
\* abs overflowed and the build checks overflow
Return(op, arg, ret, c, overflow) ==
    /\ cursor' = c
    /\ last' = [op |-> op, arg |-> arg, ret |-> ret, before |-> cursor]
    /\ pc' = IF overflow /\ overflow_checks THEN "panicked" ELSE "ready"
    /\ UNCHANGED <<model, overflow_checks, shapes_acc, ext_curr, ext_prev,
                 other, text>>

CallNext ==
    /\ pc = "ready"
    /\ LET r == next(cursor)
       IN Return("next", <<>>,
                 IF r.ok THEN [ok |-> TRUE, val |-> r.cur.state]
                 ELSE [ok |-> FALSE, err |-> "EndOfFile"],
                 r.cur, FALSE)

CallPrev ==
    /\ pc = "ready"
    /\ LET r == prev(cursor)
       IN Return("prev", <<>>,
                 IF r.ok THEN [ok |-> TRUE, val |-> r.cur.curr_command]
                 ELSE [ok |-> FALSE, err |-> "StartOfFile"],
                 r.cur, FALSE)

CallReset ==
    /\ pc = "ready"
    /\ Return("reset", <<>>, <<>>, reset(cursor), FALSE)

CallChildAt ==
    /\ pc = "ready"
    /\ \E idx \in 0..(len(model) - 1) :
          Return("child_at", idx, child_at(cursor, idx), cursor, FALSE)

CallNextShape ==
    /\ pc = "ready"
    /\ LET r == next_shape(cursor)
       IN Return("next_shape", <<>>, r.range, r.cur, r.overflow)

\* shapes(): the reset before the loop
ShapesBegin ==
    /\ pc = "ready"
    /\ cursor' = reset(cursor)
    /\ shapes_acc' = <<>>
    /\ pc' = "shapes"
    /\ last' = [op |-> "shapes_running", arg |-> <<>>, ret |-> <<>>, before |-> cursor]
    /\ UNCHANGED <<model, overflow_checks, ext_curr, ext_prev,
                 other, text>>

\* shapes(): one iteration of the loop
ShapesStep ==
    /\ pc = "shapes"
    /\ cursor.idx < len(model) - 1
    /\ Len(shapes_acc) < MaxShapes
    /\ LET r == next_shape(cursor)
       IN /\ cursor' = r.cur
          /\ shapes_acc' = Append(shapes_acc, r.range)
          /\ pc' = IF r.overflow /\ overflow_checks THEN "panicked" ELSE "shapes"
    /\ UNCHANGED <<model, overflow_checks, last, ext_curr, ext_prev,
                 other, text>>

\* shapes(): the loop condition fails and the Vec is returned
ShapesEnd ==
    /\ pc = "shapes"
    /\ last.op = "shapes_running"
    /\ ~(cursor.idx < len(model) - 1)
    /\ last' = [op |-> "shapes", arg |-> <<>>, ret |-> shapes_acc, before |-> last.before]
    /\ pc' = "ready"
    /\ shapes_acc' = <<>>
    /\ UNCHANGED <<model, overflow_checks, cursor, ext_curr, ext_prev,
                 other, text>>

CallIsPlanar ==
    /\ pc = "ready"
    /\ LET r == is_planar(cursor)
       IN Return("is_planar", <<>>, r.ret, r.cur, r.overflow)

CallLayerHeight ==
    /\ pc = "ready"
    /\ LET r == layer_height(cursor)
       IN Return("layer_height", <<>>, r.ret, r.cur, r.overflow)

Next ==
    \/ CallNext
    \/ CallPrev
    \/ CallReset
    \/ CallChildAt
    \/ CallNextShape
    \/ ShapesBegin
    \/ ShapesStep
    \/ ShapesEnd
    \/ CallIsPlanar
    \/ CallLayerHeight

Spec == Init /\ [][Next]_vars

TypeOK ==
    /\ pc \in {"ready", "shapes", "child_at", "panicked"}
    /\ cursor.idx \in 0..(len(model) - 1)

(***************************************************************************)
(* is_extrusion as a pure function: the arguments are drawn in the initial *)
(* state and one call is made on them.                                     *)
(***************************************************************************)
ExtPositions ==
    { <<x, y, z, e, 900000>> :
          x \in {MIN, 0, 50000},
          y \in {MIN, -1000, 0},
          z \in {MIN, 0, 3000},
          e \in {MIN, -1500, 0, 25000, 100000} }

ExtModel == GCodeModel(<<Raw("M666")>>)

InitExt ==
    /\ model = ExtModel
    /\ overflow_checks \in BOOLEAN
    /\ cursor = CursorFrom(model)
    /\ pc = "ready"
    /\ shapes_acc = <<>>
    /\ last = NoCall(cursor)
    /\ ext_curr \in ExtPositions
    /\ ext_prev \in ExtPositions
    /\ other = CursorFrom(model)
    /\ text = <<>>

CallIsExtrusion ==
    /\ pc = "ready"
    /\ last.op = "new"
    /\ last' = [op |-> "is_extrusion", arg |-> <<ext_curr, ext_prev,
                 other, text>>,
                ret |-> is_extrusion(ext_curr, ext_prev), before |-> cursor]
    /\ pc' = IF is_extrusion_overflows(ext_curr, ext_prev) /\ overflow_checks
             THEN "panicked" ELSE "ready"
    /\ UNCHANGED <<model, overflow_checks, cursor, shapes_acc, ext_curr, ext_prev,
                 other, text>>

NextExt == CallIsExtrusion

SpecExt == InitExt /\ [][NextExt]_vars

(***************************************************************************)
(* The print-region machine: the cursor over models of purge-line, travel  *)
(* and print moves, with the calls of the shape and print-region           *)
(* heuristics.                                                             *)
(***************************************************************************)
\* The commands the print-region models are built from.
PrintCmdSet ==
    { G1(Some(1000), Some(1000), None, Some(1000), None),  \* G1 X1 Y1 E1
      G1(Some(1500), Some(1500), None, Some(2000), None),  \* G1 X1.5 Y1.5 E2
      G1(Some(2000), Some(2000), None, Some(3000), None),  \* G1 X2 Y2 E3
      G1(Some(5000), Some(5000), Some(400), Some(4000), None),  \* G1 X5 Y5 Z0.4 E4
      G1(Some(0), Some(0), None, None, None),              \* G1 X0 Y0
      G1(None, None, Some(200), None, None) }              \* G1 Z0.2

PrintModels ==
    { GCodeModel(ls) : ls \in UNION { SeqsOfLen(PrintCmdSet, n) : n \in 1..MaxLen } }

InitPrint ==
    /\ model \in PrintModels
    /\ overflow_checks \in BOOLEAN
    /\ cursor = CursorFrom(model)
    /\ pc = "ready"
    /\ shapes_acc = <<>>
    /\ last = NoCall(cursor)
    /\ ext_curr = Unset
    /\ ext_prev = Unset
    /\ other = CursorFrom(model)
    /\ text = <<>>

CallNonplanarExtrusion ==
    /\ pc = "ready"
    /\ \E p \in {cursor.prev, cursor.state, Unset} :
          Return("nonplanar_extrusion", p, nonplanar_extrusion(cursor, p),
                 cursor, nonplanar_overflows(cursor, p))

CallAtFirstExtrusion ==
    /\ pc = "ready"
    /\ LET r == at_first_extrusion(cursor)
       IN Return("at_first_extrusion", <<>>, r.ret, cursor, r.overflow)

CallIsPurgeLine ==
    /\ pc = "ready"
    /\ \E start \in 0..(len(model) - 1) :
          \E end \in start..(len(model) - 1) :
             LET r == is_purge_line(cursor, <<start, end>>)
             IN Return("is_purge_line", <<start, end>>, r.ret, cursor, r.overflow)

\* the reset that begins the shapes() call of pre_print or post_print
RegionBegin(op) ==
    /\ pc = "ready"
    /\ cursor' = reset(cursor)
    /\ shapes_acc' = <<>>
    /\ pc' = "shapes"
    /\ last' = [op |-> op, arg |-> <<>>, ret |-> <<>>, before |-> cursor]
    /\ UNCHANGED <<model, overflow_checks, ext_curr, ext_prev,
                 other, text>>

PrePrintBegin == RegionBegin("pre_print_running")

\* pre_print: shapes() has returned
PrePrintEnd ==
    /\ pc = "shapes"
    /\ last.op = "pre_print_running"
    /\ ~(cursor.idx < len(model) - 1)
    /\ LET r == pre_print_after_shapes(cursor, shapes_acc)
       IN /\ last' = [op |-> "pre_print", arg |-> <<>>,
                      ret |-> IF r.ok THEN [ok |-> TRUE, range |-> r.range,
                                            shapes |-> shapes_acc]
                              ELSE [ok |-> FALSE, err |-> r.err,
                                    shapes |-> shapes_acc],
                      before |-> last.before]
          /\ pc' = IF r.overflow /\ overflow_checks THEN "panicked" ELSE "ready"
    /\ shapes_acc' = <<>>
    /\ UNCHANGED <<model, overflow_checks, cursor, ext_curr, ext_prev,
                 other, text>>

PostPrintBegin == RegionBegin("post_print_running")

\* post_print: shapes() has returned
PostPrintEnd ==
    /\ pc = "shapes"
    /\ last.op = "post_print_running"
    /\ ~(cursor.idx < len(model) - 1)
    /\ LET r == post_print_after_shapes(cursor, shapes_acc)
       IN last' = [op |-> "post_print", arg |-> <<>>,
                   ret |-> IF r.ok THEN [ok |-> TRUE, range |-> r.range,
                                         shapes |-> shapes_acc]
                           ELSE [ok |-> FALSE, err |-> r.err,
                                 shapes |-> shapes_acc],
                   before |-> last.before]
    /\ pc' = "ready"
    /\ shapes_acc' = <<>>
    /\ UNCHANGED <<model, overflow_checks, cursor, ext_curr, ext_prev,
                 other, text>>

NextPrint ==
    \/ CallNext
    \/ ShapesStep
    \/ CallNonplanarExtrusion
    \/ CallAtFirstExtrusion
    \/ CallIsPurgeLine
    \/ PrePrintBegin
    \/ PrePrintEnd
    \/ PostPrintBegin
    \/ PostPrintEnd

SpecPrint == InitPrint /\ [][NextPrint]_vars

(***************************************************************************)
(* Two cursors over one model: each step is one call on one of them.       *)
(***************************************************************************)
\* The commands the shared models are built from.
TwoCmdSet ==
    { G1(Some(1000), None, None, Some(1000), None),  \* G1 X1 E1
      G1(None, None, Some(200), None, None) }        \* G1 Z0.2

TwoModels ==
    { GCodeModel(ls) : ls \in UNION { SeqsOfLen(TwoCmdSet, n) : n \in 1..MaxLen } }

InitTwo ==
    /\ model \in TwoModels
    /\ overflow_checks \in BOOLEAN
    /\ cursor = CursorFrom(model)
    /\ pc = "ready"
    /\ shapes_acc = <<>>
    /\ last = NoCall(cursor)
    /\ ext_curr = Unset
    /\ ext_prev = Unset
    /\ other = CursorFrom(model)
    /\ text = <<>>

\* the call of op with the arguments args on the cursor number which: 1 is
\* cursor, 2 is other; a call that does not return stays inside its loop
CallOn(which, op, args) ==
    /\ pc = "ready"
    /\ \E r \in {call(op, <<cursor, other>>[which], args)} :
          LET after == assign(<<cursor, other>>, which, r.cur)
          IN /\ cursor' = after[1]
             /\ other' = after[2]
             /\ pc' = IF r.overflow /\ overflow_checks THEN "panicked"
                      ELSE IF r.returns THEN "ready"
                      ELSE IF op = "child_at" THEN "child_at"
                      ELSE "shapes"
    /\ last' = [op |-> op, arg |-> which, args |-> args, ret |-> <<>>,
                before |-> <<>>]
    /\ UNCHANGED <<model, overflow_checks, shapes_acc, ext_curr, ext_prev, text>>

CallOnCursor == \E op \in CursorOps : \E args \in OpArgs(op) : CallOn(1, op, args)

CallOnOther == \E op \in CursorOps : \E args \in OpArgs(op) : CallOn(2, op, args)

NextTwo ==
    \/ CallOnCursor
    \/ CallOnOther

SpecTwo == InitTwo /\ [][NextTwo]_vars

(***************************************************************************)
(* The parser (parsers.rs) and the emitter (display.rs) on text: a text is *)
(* a sequence of characters, each a string of length one.                  *)
(***************************************************************************)
\* A character is a string of length one, of the characters up to U+00FF.
\* multispace1: space, tab, carriage return and line feed
Multispace == {" ", "\t", "\n", "\r"}

\* char::is_whitespace (the Unicode property White_Space): U+0009 to U+000D,
\* U+0020, U+0085 and U+00A0
Whitespace == {"\t", "\n", "", "\f", "\r", " ", "", " "}

\* char::is_numeric (the Unicode categories Nd, Nl and No): the digits,
\* U+00B2, U+00B3, U+00B9 and U+00BC to U+00BE
Numeric ==
    {"0", "1", "2", "3", "4", "5", "6", "7", "8", "9",
     "²", "³", "¹", "¼", "½", "¾"}

\* is_number_char
NumberChars == Numeric \cup {".", "-", "+"}

drop(input, n) == SubSeq(input, n + 1, Len(input))

RECURSIVE take_while(_, _)
\* take_while(0.., chars): the longest prefix of characters in chars
take_while(input, chars) ==
    IF input = <<>> THEN <<>>
    ELSE IF Head(input) \in chars
         THEN <<Head(input)>> \o take_while(Tail(input), chars)
         ELSE <<>>

RECURSIVE take_till(_, _)
\* take_till(0.., chars): the longest prefix of characters not in chars
take_till(input, chars) ==
    IF input = <<>> THEN <<>>
    ELSE IF Head(input) \in chars
         THEN <<>>
         ELSE <<Head(input)>> \o take_till(Tail(input), chars)

\* parse_line: the line up to the first line break, then all the white space
\* that follows is consumed
parse_line(input) ==
    LET line == take_till(input, {"\n", "\r"})
        after == drop(input, Len(line))
        space == take_while(after, Multispace)
    IN [line |-> line, rest |-> drop(after, Len(space))]

RECURSIVE parse_lines(_)
parse_lines(input) ==
    IF input = <<>> THEN <<>>
    ELSE LET r == parse_line(input)
         IN <<r.line>> \o parse_lines(r.rest)

\* the split of a line at its first ';' in gcode_parser
split_comment(line) ==
    LET command == take_till(line, {";"})
    IN IF Len(command) = Len(line)
       THEN [line |-> line, comments |-> <<>>]
       ELSE [line |-> command, comments |-> drop(line, Len(command) + 1)]

\* line.split_whitespace().collect::<String>()
clear_whitespace(line) == SelectSeq(line, LAMBDA c : c \notin Whitespace)

parse_word(input) ==
    IF input = <<>> THEN [ok |-> FALSE]
    ELSE LET num == take_while(Tail(input), Numeric)
         IN [ok |-> TRUE, command |-> <<Head(input)>>, num |-> num,
             rest |-> drop(Tail(input), Len(num))]

RECURSIVE g1_parameter_walk(_, _)
\* the while loop of g1_parameter_parse: the parameters read so far and the
\* input left when no further letter and number follow; one_of has taken a
\* letter by the time take_while(1..) finds no number after it
g1_parameter_walk(input, out) ==
    IF input = <<>> THEN [out |-> out, rest |-> input]
    ELSE IF Head(input) \in {"X", "Y", "Z", "E", "F"}
         THEN LET val == take_while(Tail(input), NumberChars)
              IN IF val = <<>> THEN [out |-> out, rest |-> Tail(input)]
                 ELSE g1_parameter_walk(
                          drop(Tail(input), Len(val)),
                          CASE Head(input) = "X" -> [out EXCEPT !.x = Some(val)]
                            [] Head(input) = "Y" -> [out EXCEPT !.y = Some(val)]
                            [] Head(input) = "Z" -> [out EXCEPT !.z = Some(val)]
                            [] Head(input) = "E" -> [out EXCEPT !.e = Some(val)]
                            [] Head(input) = "F" -> [out EXCEPT !.f = Some(val)])
         ELSE [out |-> out, rest |-> input]

\* g1_parameter_parse.parse(rest): an error when input is left over
g1_parameter_parse(input) ==
    LET w == g1_parameter_walk(input, G1(None, None, None, None, None))
    IN IF w.rest = <<>> THEN [ok |-> TRUE, g1 |-> w.out] ELSE [ok |-> FALSE]

\* a gcode_parser that keeps the command text with its white space cleared
gcode_line_cleared(i, text_line) ==
    LET split == split_comment(text_line)
    IN [ok |-> TRUE,
        line |-> [id |-> i, line_number |-> i,
                  command |-> Raw(clear_whitespace(split.line)),
                  comments |-> split.comments]]

\* the body of the for loop of gcode_parser for the line numbered i
gcode_line(i, text_line) ==
    LET split == split_comment(text_line)
        string_copy == split.line
        word == parse_word(clear_whitespace(split.line))
        made(command) == [ok |-> TRUE,
                          line |-> [id |-> i, line_number |-> i,
                                    command |-> command,
                                    comments |-> split.comments]]
    IN IF ~word.ok THEN made(Raw(string_copy))
       ELSE IF word.command = <<"G">> /\ word.num = <<"1">>
            THEN LET g1 == g1_parameter_parse(word.rest)
                 IN IF g1.ok THEN made(g1.g1) ELSE [ok |-> FALSE]
       ELSE IF word.command = <<"G">> /\ word.num = <<"9", "0">> THEN made(G90)
       ELSE IF word.command = <<"G">> /\ word.num = <<"9", "1">> THEN made(G91)
       ELSE IF word.command = <<"M">> /\ word.num = <<"8", "2">> THEN made(M82)
       ELSE IF word.command = <<"M">> /\ word.num = <<"8", "3">> THEN made(M83)
       ELSE made(Raw(string_copy))

\* gcode_parser: the parsed lines and the two mode flags, or the error of a
\* G1 line whose parameters do not parse
gcode_parser(input) ==
    LET text_lines == parse_lines(input)
        parsed == [i \in 1..Len(text_lines) |-> gcode_line(i - 1, text_lines[i])]
    IN IF \E i \in 1..Len(text_lines) : ~parsed[i].ok
       THEN [ok |-> FALSE]
       ELSE LET commands == [i \in 1..Len(text_lines) |-> parsed[i].line.command]
            IN [ok |-> TRUE,
                lines |-> [i \in 1..Len(text_lines) |-> parsed[i].line],
                rel_xyz |-> LastFlag(commands, "G91", "G90", Len(commands)),
                rel_e |-> LastFlag(commands, "M83", "M82", Len(commands))]

\* the ASCII digits, which are the digits of the f32 grammar
AsciiDigits == {"0", "1", "2", "3", "4", "5", "6", "7", "8", "9"}

DigitValue(c) ==
    CASE c = "0" -> 0 [] c = "1" -> 1 [] c = "2" -> 2 [] c = "3" -> 3
      [] c = "4" -> 4 [] c = "5" -> 5 [] c = "6" -> 6 [] c = "7" -> 7
      [] c = "8" -> 8 [] c = "9" -> 9

DigitChar(d) == <<"0", "1", "2", "3", "4", "5", "6", "7", "8", "9">>[d + 1]

RECURSIVE strip_leading_zeros(_)
strip_leading_zeros(digits) ==
    IF digits # <<>> /\ Head(digits) = "0"
    THEN strip_leading_zeros(Tail(digits))
    ELSE digits

RECURSIVE strip_trailing_zeros(_)
\* str::trim_end_matches('0')
strip_trailing_zeros(digits) ==
    IF digits # <<>> /\ digits[Len(digits)] = "0"
    THEN strip_trailing_zeros(SubSeq(digits, 1, Len(digits) - 1))
    ELSE digits

RECURSIVE decimal_digits(_)
\* the decimal digits of n >= 0, "0" for 0
decimal_digits(n) ==
    IF n < 10 THEN <<DigitChar(n)>>
    ELSE decimal_digits(n \div 10) \o <<DigitChar(n % 10)>>

RECURSIVE divide_digits(_, _, _)
\* the decimal digits divided by 256 from the left: acc and then the digits
\* of the quotient, and the remainder
divide_digits(digits, carry, acc) ==
    IF digits = <<>> THEN [q |-> acc, rem |-> carry]
    ELSE LET cur == 10 * carry + DigitValue(Head(digits))
         IN divide_digits(Tail(digits), cur % 256,
                          Append(acc, DigitChar(cur \div 256)))

\* the eight binary digits of b below 256, most significant first
byte_bits(b) == [i \in 1..8 |-> (b \div Pow2(8 - i)) % 2]

RECURSIVE strip_leading_bits(_)
strip_leading_bits(bits) ==
    IF bits # <<>> /\ Head(bits) = 0 THEN strip_leading_bits(Tail(bits))
    ELSE bits

RECURSIVE integer_bytes(_, _)
\* the binary digits of the integer the decimal digits write, eight at a
\* time and most significant first, and then bits
integer_bytes(digits, bits) ==
    IF digits = <<>> THEN bits
    ELSE Only({ integer_bytes(strip_leading_zeros(h.q), byte_bits(h.rem) \o bits) :
                h \in {divide_digits(digits, 0, <<>>)} })

\* the binary digits of the integer, without leading zero
integer_bits(digits) == strip_leading_bits(integer_bytes(digits, <<>>))

RECURSIVE multiply_digits(_, _, _, _)
\* the decimal fraction times factor from the right: the digits of the
\* fraction of the product and then acc, and the integer carried out of it
multiply_digits(digits, factor, carry, acc) ==
    IF digits = <<>> THEN [carry |-> carry, frac |-> acc]
    ELSE LET cur == factor * DigitValue(digits[Len(digits)]) + carry
         IN multiply_digits(SubSeq(digits, 1, Len(digits) - 1), factor,
                            cur \div 10, <<DigitChar(cur % 10)>> \o acc)

RECURSIVE bits_value(_, _)
\* the integer the binary digits write, after acc
bits_value(bits, acc) ==
    IF bits = <<>> THEN acc
    ELSE bits_value(Tail(bits), 2 * acc + Head(bits))

Min3(a, b, c) ==
    IF a <= b /\ a <= c THEN a ELSE IF b <= c THEN b ELSE c

RECURSIVE fraction_bits(_, _, _)
\* binary digits of the decimal fraction appended to q, up to eight at a
\* time, until q has 24 of them or the 149th binary place, the last one of
\* an f32, is reached
fraction_bits(q, frac, n) ==
    IF q >= Pow2(23) \/ n = 149 THEN [q |-> q, frac |-> frac, e |-> 0 - n]
    ELSE Only({
        Only({ fraction_bits(q * Pow2(k) + d.carry, strip_trailing_zeros(d.frac),
                             n + k) :
               d \in {multiply_digits(frac, Pow2(k), 0, <<>>)} }) :
        k \in {Min3(8, 24 - BitLen(q), 149 - n)} })

\* the f32 nearest to the decimal number int.frac, ties to even: the integer
\* part has no leading and the fraction no trailing zero. The result is
\* subnormal (m below 2^23 at e = -149) under 2^-126 and infinite from 2^128.
f32_of_decimal(int, frac) ==
    IF int = <<>> /\ frac = <<>> THEN F32_ZERO
    ELSE IF Len(int) > 39 THEN F32_INFINITY
    ELSE Only({
        LET long == Len(bits) > 24
        IN Only({
            LET doubled == multiply_digits(r.frac, 2, 0, <<>>)
                round == IF long THEN bits[25] ELSE doubled.carry
                sticky == IF long
                          THEN frac # <<>> \/ \E i \in 26..Len(bits) : bits[i] = 1
                          ELSE strip_trailing_zeros(doubled.frac) # <<>>
                up == round = 1 /\ (sticky \/ r.q % 2 = 1)
                m == IF up THEN r.q + 1 ELSE r.q
                f == IF m = Pow2(24) THEN F32(Pow2(23), r.e + 1) ELSE F32(m, r.e)
            IN IF f.e > 104 THEN F32_INFINITY ELSE f :
            r \in {IF long
                   THEN [q |-> bits_value(SubSeq(bits, 1, 24), 0), frac |-> <<>>,
                         e |-> Len(bits) - 24]
                   ELSE fraction_bits(bits_value(bits, 0), frac, 0)} }) :
        bits \in {integer_bits(int)} })

\* str::parse::<f32> on a text of number characters, which is what
\* g1_parameter_parse keeps: an optional sign, then ASCII digits with at most
\* one '.' among them and at least one digit
parse_f32(s) ==
    LET signed == s # <<>> /\ Head(s) \in {"+", "-"}
        body == IF signed THEN Tail(s) ELSE s
        int == take_while(body, AsciiDigits)
        after == drop(body, Len(int))
        dotted == after # <<>> /\ Head(after) = "."
        frac == IF dotted THEN take_while(Tail(after), AsciiDigits) ELSE <<>>
        left == IF dotted THEN drop(Tail(after), Len(frac)) ELSE after
    IN IF left # <<>> \/ (int = <<>> /\ frac = <<>>)
       THEN [ok |-> FALSE]
       ELSE [ok |-> TRUE,
             negative |-> signed /\ Head(s) = "-",
             val |-> f32_of_decimal(strip_leading_zeros(int),
                                    strip_trailing_zeros(frac))]

\* (f * 1000.0).trunc() as i32 for f that is not negative: the product is
\* rounded to f32, trunc drops the fraction and the cast saturates
f32_to_microns_abs(f) ==
    IF f.kind = "inf" THEN I32_MAX
    ELSE IF f.m = 0 THEN 0
    ELSE LET p == f32_round(125 * f.m, f.e + 3)
         IN IF p.e >= 8 THEN I32_MAX
            ELSE IF p.e >= 0 THEN p.m * Pow2(p.e)
            ELSE IF p.e < 0 - 24 THEN 0
            ELSE p.m \div Pow2(0 - p.e)

\* FromStr for Microns
microns_from_str(s) ==
    LET f == parse_f32(s)
    IN IF ~f.ok THEN [ok |-> FALSE]
       ELSE LET v == f32_to_microns_abs(f.val)
            IN [ok |-> TRUE,
                val |-> IF ~f.negative THEN v
                        ELSE IF f.val.kind = "inf" \/ (f.val.m # 0 /\ f32_round(125 * f.val.m, f.val.e + 3).e >= 8)
                             THEN MIN
                             ELSE 0 - v]

\* format!("{:.3}", f) for an f32 f > 0 below 2^24: the integer part, '.' and
\* the fraction rounded to three digits, ties to even
format_3(f) ==
    LET k == 0 - f.e
        int == IF k <= 0 THEN f.m * Pow2(f.e)
               ELSE IF k > 24 THEN 0
               ELSE f.m \div Pow2(k)
        rem == IF k <= 0 THEN 0
               ELSE IF k > 24 THEN f.m
               ELSE f.m % Pow2(k)
        thousandths == IF k <= 0 THEN 0
                       ELSE IF k <= 3 THEN 125 * rem * Pow2(3 - k)
                       ELSE round_shift(125 * rem, k - 3)
        carry == thousandths = 1000
        t == IF carry THEN 0 ELSE thousandths
    IN decimal_digits(IF carry THEN int + 1 ELSE int)
           \o <<".", DigitChar(t \div 100), DigitChar((t \div 10) % 10),
                DigitChar(t % 10)>>

\* str::trim_end_matches('.')
strip_trailing_dots(str) ==
    IF str # <<>> /\ str[Len(str)] = "."
    THEN SubSeq(str, 1, Len(str) - 1)
    ELSE str

\* the number of Display for Command::G1: whole millimetres as an integer
\* (*param / Microns(1000), read as the quotient of the two i32), otherwise
\* {:.3} of the f32 with trailing '0' and then '.' trimmed
display_microns(v) ==
    IF v % 1000 = 0
    THEN (IF v < 0 THEN <<"-">> ELSE <<>>)
             \o decimal_digits((IF v < 0 THEN 0 - v ELSE v) \div 1000)
    ELSE strip_trailing_dots(strip_trailing_zeros(
             (IF v < 0 THEN <<"-">> ELSE <<>>) \o format_3(f32_from_abs(v))))

\* one "X1 " of Display for Command::G1: the parameter is the text the parser
\* kept, read as Microns; a text that is no number is printed as kept
display_param(letter, param) ==
    IF param = None THEN <<>>
    ELSE LET m == microns_from_str(param[1])
         IN <<letter>>
                \o (IF m.ok THEN display_microns(m.val) ELSE param[1])
                \o <<" ">>

RECURSIVE trim_end(_)
trim_end(str) ==
    IF str = <<>> THEN <<>>
    ELSE IF str[Len(str)] \in Whitespace
         THEN trim_end(SubSeq(str, 1, Len(str) - 1))
         ELSE str

\* Display for Command
display_command(command) ==
    CASE command.tag = "G1" ->
            trim_end(<<"G", "1", " ">> \o display_param("X", command.x)
                     \o display_param("Y", command.y)
                     \o display_param("Z", command.z)
                     \o display_param("E", command.e)
                     \o display_param("F", command.f))
      [] command.tag = "G90" -> <<"G", "9", "0">>
      [] command.tag = "G91" -> <<"G", "9", "1">>
      [] command.tag = "M82" -> <<"M", "8", "2">>
      [] command.tag = "M83" -> <<"M", "8", "3">>
      [] command.tag \in {"Home", "Raw"} -> command.s

\* Display for GCodeLine
display_line(line) ==
    display_command(line.command)
        \o (IF line.comments # <<>> THEN <<";">> \o line.comments ELSE <<>>)

RECURSIVE display_lines(_, _)
\* Display for GCodeModel: writeln! of the lines from the i-th on
display_lines(lines, i) ==
    IF i > Len(lines) THEN <<>>
    ELSE display_line(lines[i]) \o <<"\n">> \o display_lines(lines, i + 1)

\* GCodeModel::to_string
to_string(lines) == display_lines(lines, 1)

\* The characters the checked texts are made of.
Alphabet == {"M", "6", "8", "2", " ", "\t", ";", "\n", "\r"}

Texts == UNION { SeqsOfLen(Alphabet, n) : n \in 0..MaxText }

InitParse ==
    /\ model = ExtModel
    /\ overflow_checks \in BOOLEAN
    /\ cursor = CursorFrom(model)
    /\ pc = "ready"
    /\ shapes_acc = <<>>
    /\ last = NoCall(cursor)
    /\ ext_curr = Unset
    /\ ext_prev = Unset
    /\ other = CursorFrom(model)
    /\ text \in Texts

\* text.parse::<GCodeModel>() and to_string() of the parsed model
CallParseEmit ==
    /\ pc = "ready"
    /\ last.op = "new"
    /\ LET parsed == gcode_parser(text)
       IN last' = [op |-> "parse_emit", arg |-> text,
                   ret |-> IF parsed.ok
                           THEN [ok |-> TRUE, lines |-> parsed.lines,
                                 rel_xyz |-> parsed.rel_xyz,
                                 rel_e |-> parsed.rel_e,
                                 out |-> to_string(parsed.lines)]
                           ELSE [ok |-> FALSE],
                   before |-> cursor]
    /\ UNCHANGED <<model, overflow_checks, cursor, pc, shapes_acc, ext_curr,
                   ext_prev, other, text>>

NextParse == CallParseEmit

SpecParse == InitParse /\ [][NextParse]_vars

(***************************************************************************)
(* Properties.                                                             *)
(***************************************************************************)
\* the position after line i when lines 0..=i are applied in order to the
\* unset starting state
RECURSIVE ReplayedPosition(_, _)
ReplayedPosition(m, i) ==
    IF i = 0 THEN CursorFrom(m).state
    ELSE update([parent |-> m, idx |-> i, state |-> ReplayedPosition(m, i - 1),
                 prev |-> Unset, curr_command |-> m.lines[1]]).state

\* the position before line i
PositionBefore(m, i) == IF i = 0 THEN Unset ELSE ReplayedPosition(m, i - 1)

\* line i of m is an extrusion move: is_extrusion between the positions
\* after and before it
ExtrusionMove(m, i) == is_extrusion(ReplayedPosition(m, i), PositionBefore(m, i))

FreshCall == last.before = CursorFrom(model)

\* ranges is a partition of 0..n-1 into consecutive inclusive ranges
IsPartition(ranges, n) ==
    /\ Len(ranges) >= 1
    /\ ranges[1][1] = 0
    /\ \A k \in 1..Len(ranges) : ranges[k][1] <= ranges[k][2]
    /\ \A k \in 2..Len(ranges) : ranges[k][1] = ranges[k - 1][2] + 1
    /\ ranges[Len(ranges)][2] = n - 1

\* C1: for every non-empty model shapes() returns a partition of the line
\* indices: the first range starts at 0, each next range starts one past the
\* end of the one before it, and the last range ends at len-1 (single-line
\* models included).
C1_ShapesIsPartition ==
    (pc = "ready" /\ last.op = "shapes") => IsPartition(last.ret, len(model))

\* C2: next() at the last line returns Err(EndOfFile) and prev() at index 0
\* returns Err(StartOfFile); neither panics and the cursor's idx, state and
\* prev are what they were before the call.
C2_EndsAreErrors ==
    /\ (last.op = "next" /\ last.before.idx = len(model) - 1) =>
           /\ pc = "ready"
           /\ last.ret = [ok |-> FALSE, err |-> "EndOfFile"]
           /\ cursor.idx = last.before.idx
           /\ cursor.state = last.before.state
           /\ cursor.prev = last.before.prev
    /\ (last.op = "prev" /\ last.before.idx = 0) =>
           /\ pc = "ready"
           /\ last.ret = [ok |-> FALSE, err |-> "StartOfFile"]
           /\ cursor.idx = last.before.idx
           /\ cursor.state = last.before.state
           /\ cursor.prev = last.before.prev

\* a failed next() on a cursor that had moved: its prev differs from its state
C2_Witness ==
    /\ last.op = "next"
    /\ last.before.idx = len(model) - 1
    /\ last.before.idx > 0
    /\ last.before.prev # last.before.state
    /\ last.ret.ok = FALSE

\* every axis of the position p holds a coordinate, none the unset marker
AllSet(p) == \A k \in 1..4 : p[k] # MIN

\* C3 as stated: is_extrusion(curr, prev) is false whenever the E of curr is
\* not greater than the E of prev, whatever the X, Y, Z displacement (here
\* for positions whose axes are all set).
C3_FalseWhenENotIncreased ==
    (/\ last.op = "is_extrusion"
     /\ AllSet(ext_curr) /\ AllSet(ext_prev)
     /\ ext_curr[4] <= ext_prev[4])
        => last.ret = FALSE

\* C3 amended: is_extrusion(curr, prev) returns false whenever the E of curr
\* is not greater than zero, whatever the X, Y, Z displacement.
C3_FalseWhenENotPositive ==
    (last.op = "is_extrusion" /\ ext_curr[4] <= ZERO)
        => (pc = "ready" /\ last.ret = FALSE)

\* a call with non-positive current E on a move displaced in X
C3_Witness ==
    /\ last.op = "is_extrusion"
    /\ ext_curr[4] <= ZERO
    /\ ext_curr[1] = 50000
    /\ ext_prev[1] = 0
    /\ last.ret = FALSE

\* C4: is_extrusion(curr, prev) is true exactly when the E of curr is
\* strictly positive and at least one of X, Y, Z differs between curr and
\* prev.
C4_TrueIffPositiveEAndDisplaced ==
    last.op = "is_extrusion" =>
        /\ pc = "ready"
        /\ last.ret <=> /\ ext_curr[4] > ZERO
                        /\ \/ ext_curr[1] # ext_prev[1]
                           \/ ext_curr[2] # ext_prev[2]
                           \/ ext_curr[3] # ext_prev[3]

\* relative mode for X/Y/Z (E) in force at line i: the last G90/G91
\* (M82/M83) among the lines before it
RelativeXYZAt(m, i) == LastFlag(m.lines, "G91", "G90", i)
RelativeEAt(m, i) == LastFlag(m.lines, "M83", "M82", i)

\* axis k of the position after a G1 line is the parameter, or the previous
\* value plus the parameter in relative mode, when the line addresses it and
\* the axis had a value before
AxisResolved(param, before, after, relative) ==
    (param # None /\ before # MIN) =>
        after = IF relative THEN Add(before, param[1]) ELSE param[1]

\* C5: when update() applies a G1, each addressed axis becomes the parameter
\* value in absolute mode and previous value + parameter in relative mode
\* (G91 for X, Y, Z; M83 for E).
C5_MoveResolvesMode ==
    (last.op = "next" /\ last.ret.ok /\ cursor.curr_command.tag = "G1") =>
        LET cmd == cursor.curr_command
            b == last.before.state
            a == cursor.state
            rxyz == RelativeXYZAt(model, cursor.idx)
        IN /\ AxisResolved(cmd.x, b[1], a[1], rxyz)
           /\ AxisResolved(cmd.y, b[2], a[2], rxyz)
           /\ AxisResolved(cmd.z, b[3], a[3], rxyz)
           /\ AxisResolved(cmd.e, b[4], a[4], RelativeEAt(model, cursor.idx))

\* C6: after a successful prev() from index i to i-1 the position is the
\* one obtained by replaying lines 0..=i-1 from a fresh cursor.
C6_PrevRestoresPosition ==
    (last.op = "prev" /\ last.ret.ok) =>
        cursor.state = ReplayedPosition(model, cursor.idx)

\* C7: after reset() the cursor is at index 0 and its position is that of a
\* cursor freshly constructed on the same model.
C7_ResetIsFresh ==
    last.op = "reset" =>
        /\ cursor.idx = 0
        /\ cursor.state = CursorFrom(model).state

\* C8: for 0 <= idx < len, child_at(idx) returns a cursor at index idx whose
\* position is the replay of lines 0..=idx from a fresh cursor, and the
\* caller's idx, state and prev are unchanged.
C8_ChildAtReplays ==
    last.op = "child_at" =>
        /\ pc = "ready"
        /\ last.ret.idx = last.arg
        /\ last.ret.state = ReplayedPosition(model, last.arg)
        /\ cursor.idx = last.before.idx
        /\ cursor.state = last.before.state
        /\ cursor.prev = last.before.prev

\* a probe of a later index from a cursor that has walked on and back, so
\* that its own position is not the replayed one
C8_Witness ==
    /\ last.op = "child_at"
    /\ last.arg > 0
    /\ last.arg > cursor.idx
    /\ cursor.state # ReplayedPosition(model, cursor.idx)
    /\ last.ret.state # cursor.state

\* the Z of the extrusion moves of m after line 0, where a fresh cursor stands
ExtrusionHeights(m) ==
    { ReplayedPosition(m, i)[3] : i \in { j \in 1..(len(m) - 1) : ExtrusionMove(m, j) } }

RECURSIVE Ascending(_)
\* the elements of a finite set of integers in ascending order
Ascending(S) ==
    IF S = {} THEN <<>>
    ELSE LET lo == CHOOSE v \in S : \A w \in S : v <= w
         IN <<lo>> \o Ascending(S \ {lo})

\* the pair C9 states for the ascending distinct heights h
StatedLayerPair(h) ==
    IF Len(h) = 0 THEN <<0, 0>>
    ELSE IF Len(h) = 1 THEN <<h[1], 0>>
    ELSE IF Len(h) = 2 THEN <<h[2] - h[1], 0>>
    ELSE IF \A i \in 4..Len(h) : h[i] - h[i - 1] = h[3] - h[2]
         THEN <<h[2] - h[1], h[3] - h[2]>>
         ELSE <<h[2] - h[1], 0>>

\* no extrusion move after line 0 changes Z
PlanarModel(m) ==
    \A i \in 1..(len(m) - 1) :
        ExtrusionMove(m, i) => ReplayedPosition(m, i)[3] = PositionBefore(m, i)[3]

\* the heights are real coordinates, so that their differences are defined
HeightsSet(m) == \A h \in ExtrusionHeights(m) : h # MIN

\* C9: layer_height() on a fresh cursor over a planar model returns the pair
\* determined by the ascending distinct Z heights of the extrusion moves:
\* (0,0) for none, (h,0) for one, (h2-h1,0) for two, (h2-h1,h3-h2) for three
\* and for more when the later differences all equal h3-h2, else (h2-h1,0).
C9_LayerHeightFromHeights ==
    (last.op = "layer_height" /\ FreshCall /\ PlanarModel(model) /\ HeightsSet(model))
        => last.ret = StatedLayerPair(Ascending(ExtrusionHeights(model)))

\* some line after line 0 is an extrusion move whose Z differs from the Z
\* before it
SomeExtrusionChangesZ(m) ==
    \E i \in 1..(len(m) - 1) :
        ExtrusionMove(m, i) /\ ReplayedPosition(m, i)[3] # PositionBefore(m, i)[3]

\* C10: is_planar() on a fresh cursor returns false whenever some line is an
\* extrusion move whose Z differs from the Z before it, and true when no
\* extrusion move changes Z.
C10_PlanarIffNoExtrusionChangesZ ==
    (last.op = "is_planar" /\ FreshCall) =>
        (last.ret = FALSE <=> SomeExtrusionChangesZ(model))

\* C11: for every cursor state and previous position p (both with Z set),
\* nonplanar_extrusion(p) is true exactly when is_extrusion(current position,
\* p) is true and Z differs between the current position and p.
C11_NonplanarIffExtrusionChangingZ ==
    (/\ last.op = "nonplanar_extrusion"
     /\ pc = "ready"
     /\ last.arg[3] # MIN
     /\ last.before.state[3] # MIN)
        => (last.ret = TRUE <=>
               (/\ is_extrusion(last.before.state, last.arg)
                /\ last.before.state[3] # last.arg[3]))

\* the command is a G1 that names X, Y and a positive E
ExtrusionLine(cmd) ==
    /\ cmd.tag = "G1"
    /\ cmd.x # None
    /\ cmd.y # None
    /\ cmd.e # None
    /\ cmd.e[1] > ZERO

\* the point a G1 with X and Y moves to
PointOf(cmd) == <<cmd.x[1], cmd.y[1]>>

InsideMarginBox(pt) == pt[1] <= MARGIN /\ pt[2] <= MARGIN

OutsideMarginBox(pt) == pt[1] > MARGIN /\ pt[2] > MARGIN

Collinear(p, q, r) ==
    (q[1] - p[1]) * (r[2] - p[2]) = (q[2] - p[2]) * (r[1] - p[1])

\* the model is three extrusion moves, each a G1 with X, Y and E
ThreeExtrusionMoves(m) ==
    /\ len(m) = 3
    /\ \A i \in 0..2 : ExtrusionLine(m.lines[i + 1]) /\ ExtrusionMove(m, i)

\* exactly one of the three points lies outside the margin box, the other
\* two inside
OnePointOutside(m) ==
    \E i \in 1..3 :
        /\ OutsideMarginBox(PointOf(m.lines[i]))
        /\ \A j \in (1..3) \ {i} : InsideMarginBox(PointOf(m.lines[j]))

\* C12: for a first shape that is the first extrusion of the file and is
\* three collinear extrusion moves with all points inside the margin box,
\* is_purge_line returns true; with one of the points moved outside the
\* margin box it returns false.
C12_PurgeLineMarginGate ==
    (/\ last.op = "is_purge_line"
     /\ last.arg = <<0, 2>>
     /\ ThreeExtrusionMoves(model))
        => /\ (/\ \A i \in 1..3 : InsideMarginBox(PointOf(model.lines[i]))
               /\ Collinear(PointOf(model.lines[1]), PointOf(model.lines[2]),
                            PointOf(model.lines[3])))
                  => (pc = "ready" /\ last.ret = TRUE)
           /\ OnePointOutside(model) => (pc = "ready" /\ last.ret = FALSE)

\* the indices an inclusive range <<start, end>> contains
Indices(range) == range[1]..range[2]

\* is_purge_line for the shape, as a call on a fresh cursor returns it
PurgeLineShape(m, shape) == is_purge_line(CursorFrom(m), shape).ret

\* C13: pre_print() on a model whose first shape is not a purge line returns
\* exactly the indices strictly before the first shape's start (none when
\* that start is 0); when the first shape is a purge line and a second shape
\* exists, exactly the indices strictly before the second shape's start.
C13_PrePrintIsBeforeFirstPrintShape ==
    (/\ last.op = "pre_print"
     /\ pc = "ready"
     /\ last.ret.shapes # <<>>)
        => LET shapes == last.ret.shapes
           IN /\ ~PurgeLineShape(model, shapes[1])
                    => /\ last.ret.ok
                       /\ Indices(last.ret.range) = 0..(shapes[1][1] - 1)
              /\ (PurgeLineShape(model, shapes[1]) /\ Len(shapes) >= 2)
                    => /\ last.ret.ok
                       /\ Indices(last.ret.range) = 0..(shapes[2][1] - 1)

\* every line of the model is a G1 with X, Y and a positive E
AllExtrusionLines(m) == \A i \in 1..len(m) : ExtrusionLine(m.lines[i])

\* C14: on a model of extrusion moves, pre_print() and post_print() return
\* their error when and only when shapes() yielded no shape; with at least
\* one shape (a lone purge line included) both return Ok with a range.
C14_RegionErrorIffNoShapes ==
    (/\ last.op \in {"pre_print", "post_print"}
     /\ pc = "ready"
     /\ AllExtrusionLines(model))
        => (last.ret.ok = FALSE <=> last.ret.shapes = <<>>)

\* C15: with at least one shape, post_print() returns the range from one
\* past the end of the last shape to the last line; every index in it is a
\* valid line index greater than every index of every shape, and it holds
\* no index when the last shape ends on the last line.
C15_PostPrintIsAfterLastShape ==
    (last.op = "post_print" /\ last.ret.shapes # <<>>)
        => LET shapes == last.ret.shapes
               last_shape == shapes[Len(shapes)]
           IN /\ last.ret.ok
              /\ last.ret.range = <<last_shape[2] + 1, len(model) - 1>>
              /\ \A i \in Indices(last.ret.range) :
                    /\ i \in 0..(len(model) - 1)
                    /\ \A k \in 1..Len(shapes) :
                          \A j \in Indices(shapes[k]) : i > j
              /\ last_shape[2] = len(model) - 1
                    => Indices(last.ret.range) = {}

\* post_print() has returned Ok on a model whose last shape ends on the last
\* line
C15_Witness ==
    /\ last.op = "post_print"
    /\ last.ret.ok
    /\ len(model) >= 2
    /\ last.ret.shapes[Len(last.ret.shapes)][2] = len(model) - 1

\* C16: the traversals terminate within a number of steps bounded by the
\* file length; for shapes(), whose every iteration yields a range of at
\* least one line, the loop never runs more iterations than the model has
\* lines.
C16_ShapesLoopBoundedByLength ==
    pc = "shapes" => Len(shapes_acc) <= len(model)

\* a G1 that moves X or Y and names a positive E
XYExtrusionLine(cmd) ==
    /\ cmd.tag = "G1"
    /\ (cmd.x # None \/ cmd.y # None)
    /\ cmd.e # None
    /\ cmd.e[1] > ZERO

\* a G1 that moves X or Y and names no E
TravelOnlyLine(cmd) ==
    /\ cmd.tag = "G1"
    /\ (cmd.x # None \/ cmd.y # None)
    /\ cmd.e = None

\* the first n lines are extrusion moves with increasing positive E
AllExtrusionMoves(ls, n) ==
    /\ \A i \in 1..n : XYExtrusionLine(ls[i])
    /\ \A i \in 2..n : ls[i].e[1] > ls[i - 1].e[1]

\* C17: on a model whose lines are all extrusion moves next_shape() from a
\* fresh cursor returns 0..=len-1; with one travel-only line appended to such
\* lines shapes() returns exactly the two ranges 0..=len-2 and len-1..=len-1.
C17_ExtrusionRunThenTravel ==
    /\ (/\ last.op = "next_shape"
        /\ FreshCall
        /\ AllExtrusionMoves(model.lines, len(model)))
           => last.ret = <<0, len(model) - 1>>
    /\ (/\ last.op = "shapes"
        /\ len(model) >= 2
        /\ AllExtrusionMoves(model.lines, len(model) - 1)
        /\ TravelOnlyLine(model.lines[len(model)]))
           => last.ret = << <<0, len(model) - 2>>,
                            <<len(model) - 1, len(model) - 1>> >>

\* C20: next_shape() returns an inclusive range that starts at the cursor's
\* index and, on a fresh cursor, is a maximal run of lines of the starting
\* line's classification: every line in it has that classification and the
\* line after it, if any, has the opposite one; the cursor is left one past
\* the end, where the following next_shape() starts.
C20_NextShapeIsMaximalRun ==
    (last.op = "next_shape" /\ pc = "ready")
        => LET start == last.ret[1]
               end == last.ret[2]
           IN /\ start = last.before.idx
              /\ end \in start..(len(model) - 1)
              /\ FreshCall
                    => /\ \A i \in start..end :
                             ExtrusionMove(model, i) = ExtrusionMove(model, start)
                       /\ end < len(model) - 1
                             => /\ ExtrusionMove(model, end + 1)
                                      # ExtrusionMove(model, start)
                                /\ cursor.idx = end + 1

\* C18: for two cursors over the same model, a call on one of them never
\* changes the index, position or previous position of the other, and no
\* call changes the lines or the metadata of the model.
C18_CursorsAreIndependent ==
    [][/\ model' = model
       /\ cursor'.parent = model
       /\ other'.parent = model
       /\ last'.arg = 1 =>
             /\ other'.idx = other.idx
             /\ other'.state = other.state
             /\ other'.prev = other.prev
       /\ last'.arg = 2 =>
             /\ cursor'.idx = cursor.idx
             /\ cursor'.state = cursor.state
             /\ cursor'.prev = cursor.prev]_vars

\* cursor has just been advanced to line 1 while other stands on line 2
C18_Witness ==
    /\ last.op = "next"
    /\ last.arg = 1
    /\ cursor.idx = 1
    /\ other.idx = 2

RECURSIVE InputLines(_)
\* the lines of a text: each ends before a line feed, and what follows the
\* last line feed is a line when it is not empty
InputLines(str) ==
    IF str = <<>> THEN <<>>
    ELSE LET line == take_till(str, {"\n"})
         IN <<line>> \o InputLines(drop(str, Len(line) + 1))

\* the line up to its first ';', and the line after it
BeforeSemicolon(line) == take_till(line, {";"})

AfterSemicolon(line) == drop(line, Len(BeforeSemicolon(line)) + 1)

AllRaw(lines) == \A i \in 1..Len(lines) : lines[i].command.tag = "Raw"

\* the parsed lines are the input lines, one Raw command per line with the
\* text before the first ';' and the comment after it, and the rendered
\* text is the input
RawRoundTrip ==
    LET input_lines == InputLines(text)
        lines == last.ret.lines
    IN /\ Len(lines) = Len(input_lines)
       /\ \A i \in 1..Len(lines) :
             /\ lines[i].command = Raw(BeforeSemicolon(input_lines[i]))
             /\ lines[i].comments = AfterSemicolon(input_lines[i])
       /\ last.ret.out = text

\* C19 as stated: parsing any text whose lines are not recognized commands
\* yields one Raw line per input line with the command text verbatim and the
\* text after the first ';' as comment, and rendering it gives the input.
C19_RawRoundTripAnyText ==
    (last.op = "parse_emit" /\ last.ret.ok /\ AllRaw(last.ret.lines))
        => RawRoundTrip

\* the text has no carriage return, and every line ends with a line feed, is
\* not empty, does not start with white space and does not end with ';'
NormalText(str) ==
    /\ \A i \in 1..Len(str) : str[i] # "\r"
    /\ str # <<>> => str[Len(str)] = "\n"
    /\ \A i \in 1..Len(InputLines(str)) :
          LET line == InputLines(str)[i]
          IN /\ line # <<>>
             /\ line[1] \notin Whitespace
             /\ line[Len(line)] # ";"

\* C19, amended: the round trip of C19 holds for the texts without carriage
\* return in which every line ends with a line feed, is not empty, does not
\* start with white space and does not end with ';'.
C19_RawRoundTripNormalText ==
    (/\ last.op = "parse_emit"
     /\ last.ret.ok
     /\ AllRaw(last.ret.lines)
     /\ NormalText(text))
        => RawRoundTrip

\* a text of one Raw line with a comment after its ';' has been parsed and
\* rendered
C19_Witness ==
    /\ last.op = "parse_emit"
    /\ last.ret.ok
    /\ NormalText(text)
    /\ Len(last.ret.lines) = 1
    /\ last.ret.lines[1].command.tag = "Raw"
    /\ last.ret.lines[1].command.s # <<>>
    /\ last.ret.lines[1].comments # <<>>

\* shapes() as a call on a fresh cursor over m runs: its list of ranges
FreshShapes(m) == shapes_run(CursorFrom(m))

\* C21: shapes() gives the list of ranges a fresh cursor over the model
\* gives, whatever the index, position and previous position of the cursor
\* were before the call: the ranges pushed so far are the first ranges of the
\* fresh call, and the returned list is its returned list.
C21_ShapesIgnoresCursorState ==
    /\ (pc = "shapes" /\ last.op = "shapes_running")
          => /\ Len(shapes_acc) <= Len(FreshShapes(model).shapes)
             /\ shapes_acc = SubSeq(FreshShapes(model).shapes, 1, Len(shapes_acc))
    /\ last.op = "shapes"
          => /\ FreshShapes(model).returns
             /\ last.ret = FreshShapes(model).shapes

\* some line before line i of m is an extrusion move
ExtrusionMoveBefore(m, i) == \E j \in 0..(i - 1) : ExtrusionMove(m, j)

\* C22: at_first_extrusion(), on a cursor that holds the replayed position of
\* its line, returns true if and only if no line before the cursor's index is
\* an extrusion move; is_purge_line(range) returns false whenever an
\* extrusion move occurs before the start of the range.
C22_FirstExtrusionIffNoneBefore ==
    /\ (/\ last.op = "at_first_extrusion"
        /\ pc = "ready"
        /\ last.before.state = ReplayedPosition(model, last.before.idx))
          => (last.ret = TRUE <=> ~ExtrusionMoveBefore(model, last.before.idx))
    /\ (/\ last.op = "is_purge_line"
        /\ pc = "ready"
        /\ ExtrusionMoveBefore(model, last.arg[1]))
          => last.ret = FALSE

(***************************************************************************)
(* The purge-line machine: the cursor over models of extrusion moves that   *)
(* all stay inside the margin, long enough for the collinearity test of     *)
(* is_purge_line to run.                                                    *)
(***************************************************************************)
\* The commands the purge-line models are built from.
PurgeCmdSet ==
    { G1(Some(500), Some(500), None, Some(1000), None),    \* G1 X0.5 Y0.5 E1
      G1(Some(1000), Some(1000), None, Some(1000), None),  \* G1 X1 Y1 E1
      G1(Some(1500), Some(500), None, Some(1000), None),   \* G1 X1.5 Y0.5 E1
      G1(Some(1500), Some(1500), None, Some(1000), None),  \* G1 X1.5 Y1.5 E1
      G1(Some(500), Some(1500), None, Some(1000), None) }  \* G1 X0.5 Y1.5 E1

\* the longest purge-line model: a start line and three more points
PurgeLen == MaxLen + 1

PurgeModels ==
    { GCodeModel(ls) : ls \in UNION { SeqsOfLen(PurgeCmdSet, n) : n \in 1..PurgeLen } }

InitPurge ==
    /\ model \in PurgeModels
    /\ overflow_checks \in BOOLEAN
    /\ cursor = CursorFrom(model)
    /\ pc = "ready"
    /\ shapes_acc = <<>>
    /\ last = NoCall(cursor)
    /\ ext_curr = Unset
    /\ ext_prev = Unset
    /\ other = CursorFrom(model)
    /\ text = <<>>

\* is_purge_line on a range that starts the file
CallIsPurgeLineAtStart ==
    /\ pc = "ready"
    /\ \E end \in 0..(len(model) - 1) :
          LET r == is_purge_line(cursor, <<0, end>>)
          IN Return("is_purge_line", <<0, end>>, r.ret, cursor, r.overflow)

NextPurge == CallIsPurgeLineAtStart

SpecPurge == InitPurge /\ [][NextPurge]_vars

\* every line after the first moves to a point other than the one before it,
\* so that each of them is an extrusion point of the shape
EveryLineMoves(m) ==
    \A i \in 2..len(m) : PointOf(m.lines[i]) # PointOf(m.lines[i - 1])

\* the extrusion points of the shape that starts at line 0 of m: the points
\* of the lines after its start
ShapePoints(m) == [i \in 1..(len(m) - 1) |-> PointOf(m.lines[i + 1])]

AllCollinear(pts) ==
    \A i \in 1..Len(pts) : \A j \in 1..Len(pts) : \A k \in 1..Len(pts) :
        Collinear(pts[i], pts[j], pts[k])

\* C23: when the shape that starts the file stays inside the margin and has
\* three or more extrusion points, is_purge_line returns true only if those
\* points are collinear; a zigzag or two vertical segments joined by a
\* horizontal offset is not a purge line.
C23_PurgeLineOnlyIfCollinear ==
    (/\ last.op = "is_purge_line"
     /\ pc = "ready"
     /\ last.arg = <<0, len(model) - 1>>
     /\ AllExtrusionLines(model)
     /\ \A i \in 1..len(model) : InsideMarginBox(PointOf(model.lines[i]))
     /\ EveryLineMoves(model)
     /\ Len(ShapePoints(model)) >= 3
     /\ last.ret = TRUE)
        => AllCollinear(ShapePoints(model))

(***************************************************************************)
(* The update machine: the cursor moved by next, prev and reset over        *)
(* models of every kind of command update() distinguishes.                  *)
(***************************************************************************)
\* The commands the update models are built from.
UpdateCmdSet ==
    { G1(Some(1000), None, None, Some(1000), None),       \* G1 X1 E1
      G1(None, Some(5000), Some(200), None, Some(3000)),  \* G1 Y5 Z0.2 F3
      G90,
      G91,
      M82,
      M83,
      Home("G28"),
      Raw("M666") }

UpdateModels ==
    { GCodeModel(ls) : ls \in UNION { SeqsOfLen(UpdateCmdSet, n) : n \in 1..MaxLen } }

InitUpdate ==
    /\ model \in UpdateModels
    /\ overflow_checks \in BOOLEAN
    /\ cursor = CursorFrom(model)
    /\ pc = "ready"
    /\ shapes_acc = <<>>
    /\ last = NoCall(cursor)
    /\ ext_curr = Unset
    /\ ext_prev = Unset
    /\ other = CursorFrom(model)
    /\ text = <<>>

NextUpdate ==
    \/ CallNext
    \/ CallPrev
    \/ CallReset

SpecUpdate == InitUpdate /\ [][NextUpdate]_vars

\* the last call ran update(): a next() or prev() that returned Ok, or reset()
UpdateRan ==
    \/ last.op \in {"next", "prev"} /\ last.ret.ok
    \/ last.op = "reset"

\* the commands update() passes over: mode switches and raw lines
PositionInert(cmd) == cmd.tag \in {"G90", "G91", "M82", "M83", "Raw"}

\* the parameter of a G1 for axis k of the position
AxisParam(cmd, k) == <<cmd.x, cmd.y, cmd.z, cmd.e, cmd.f>>[k]

\* C24: update() leaves the position unchanged on every axis when the
\* current line is a mode switch (G90, G91, M82, M83) or a Raw line; for a G1
\* line every axis the line does not address keeps its value from before the
\* update; update() fails on none of these lines.
C24_UpdateFrame ==
    UpdateRan
        => /\ pc = "ready"
           /\ cursor.curr_command = model.lines[cursor.idx + 1]
           /\ PositionInert(cursor.curr_command)
                 => cursor.state = last.before.state
           /\ cursor.curr_command.tag = "G1"
                 => \A k \in 1..5 :
                       AxisParam(cursor.curr_command, k) = None
                          => cursor.state[k] = last.before.state[k]

\* a next() has reached a mode switch with a position that a G1 and a home
\* before it have set
C24_Witness ==
    /\ last.op = "next"
    /\ last.ret.ok
    /\ cursor.curr_command.tag \in {"G90", "G91", "M82", "M83"}
    /\ cursor.state[1] = 1000
    /\ cursor.state[3] = ZERO
    /\ cursor.state = last.before.state

\* the cursor c is on a line of the model m and holds that line's command
OnItsLine(c, m) ==
    /\ 0 <= c.idx
    /\ c.idx < len(m)
    /\ c.curr_command = m.lines[c.idx + 1]

\* C25: for cursors built on a non-empty model, after any sequence of next,
\* prev, reset, next_shape, shapes, is_planar, layer_height, pre_print and
\* post_print calls, successful or failing, each cursor's index satisfies
\* 0 <= idx < len and its current command is the command of the line at idx.
C25_CursorStaysOnALine ==
    pc = "ready" => OnItsLine(cursor, model) /\ OnItsLine(other, model)

\* a post_print() has returned and left its cursor on the last line, past
\* the first, while the other cursor went forward and back
C25_Witness ==
    /\ pc = "ready"
    /\ last.op = "post_print"
    /\ last.arg = 1
    /\ cursor.idx = len(model) - 1
    /\ cursor.idx > 0
    /\ other.idx = 0
    /\ other.prev # Unset
    /\ OnItsLine(cursor, model)

\* C26: no analyzer operation applies Microns::abs to MIN: in every
\* is_extrusion call made by next_shape, at_first_extrusion, is_purge_line
\* and layer_height, and in nonplanar_extrusion, the saturating difference of
\* two positions is never MIN, so no build that checks overflow panics.
C26_NoAbsOfMin == pc # "panicked"

\* the model that agrees with m on every line up to index end and has no
\* later line
UpTo(m, end) == GCodeModel(SubSeq(m.lines, 1, end + 1))

\* C27: the result of is_purge_line(range) depends only on the lines up to
\* the end of the range: the model and the model cut after the end of the
\* range, which agree on every line with index <= range.end, give the same
\* result.
C27_PurgeLineIgnoresLaterLines ==
    (/\ last.op = "is_purge_line"
     /\ pc = "ready")
        => last.ret = is_purge_line(CursorFrom(UpTo(model, last.arg[2])),
                                    last.arg).ret

(***************************************************************************)
(* The child_at machine: child_at(idx) run one iteration of its loop at a  *)
(* time; other holds the child cursor and last.arg the target index.        *)
(***************************************************************************)
InitChild ==
    /\ model \in TwoModels
    /\ overflow_checks \in BOOLEAN
    /\ cursor = CursorFrom(model)
    /\ pc = "ready"
    /\ shapes_acc = <<>>
    /\ last = NoCall(cursor)
    /\ ext_curr = Unset
    /\ ext_prev = Unset
    /\ other = CursorFrom(model)
    /\ text = <<>>

\* child_at(idx): let mut child = Cursor::from(self.parent)
ChildAtBegin ==
    /\ pc = "ready"
    /\ \E idx \in 0..MaxIdx :
          last' = [op |-> "child_at_running", arg |-> idx, ret |-> <<>>,
                   before |-> cursor]
    /\ other' = CursorFrom(cursor.parent)
    /\ pc' = "child_at"
    /\ UNCHANGED <<model, overflow_checks, cursor, shapes_acc, ext_curr,
                   ext_prev, text>>

\* one iteration of while child.idx < idx { let _ = child.next(); }
ChildAtStep ==
    /\ pc = "child_at"
    /\ other.idx < last.arg
    /\ other' = next(other).cur
    /\ UNCHANGED <<model, overflow_checks, cursor, pc, shapes_acc, last,
                   ext_curr, ext_prev, text>>

\* the loop condition is false: child_at returns the child
ChildAtEnd ==
    /\ pc = "child_at"
    /\ ~(other.idx < last.arg)
    /\ Return("child_at", last.arg, other, cursor, FALSE)

NextChild ==
    \/ CallNext
    \/ ChildAtBegin
    \/ ChildAtStep
    \/ ChildAtEnd

\* a call that has begun keeps running: its next iteration or its return is
\* taken whenever it can be
SpecChild ==
    /\ InitChild
    /\ [][NextChild]_vars
    /\ WF_vars(ChildAtStep)
    /\ WF_vars(ChildAtEnd)

\* C28: child_at(idx) terminates for every idx, including an idx greater than
\* or equal to the number of lines of the model: a call that has begun
\* returns.
C28_ChildAtTerminates == (pc = "child_at") ~> (pc = "ready")

====
